---- MODULE Spec2Model ----
(***************************************************************************)
(* Model of src/src/internal.rs: the typed allocation layer gen_malloc,    *)
(* gen_free and gen_realloc over the platform heap primitives malloc,      *)
(* memalign, posix_memalign, realloc and free.                             *)
(*                                                                         *)
(* The platform heap is a finite address range.  A platform primitive      *)
(* that allocates is a set-valued operator: the set of results the         *)
(* platform may give (NULL, or any address its contract allows).  The      *)
(* typed functions are set-valued in the same way: each yields the set of  *)
(* outcomes (result, heap after, platform calls made) it can end in.       *)
(***************************************************************************)
EXTENDS Integers, Sequences, FiniteSets, Bags, TLC

\* ------------------------------------------------------------- bounds ----
\* Largest ordinary element count a caller asks for.
MaxCount == 2
\* Number of handles the caller holds at the same time.
MaxHandles == 2
\* First and one-past-last address of the modelled platform heap; every
\* heap address is above every sentinel.
HeapBase == 16
HeapTop == 28

\* ------------------------------------------------- platform constants ----
NULL == 0
\* size_of::<*mut ()>() in bytes; usize has 8 * PtrSize bits.
PtrSize == 2
\* Alignment libc malloc and realloc guarantee (alignof(max_align_t)).
MallocAlign == 2

USIZE_MOD == 2 ^ (8 * PtrSize)
\* A count whose product with any size >= 2 overflows usize and wraps to a
\* small positive number of bytes.
HugeCount == (USIZE_MOD \div 2) + 1

Platforms == {"windows", "android", "posix"}

\* A type T is its layout.  Rust layouts: align is a power of two and size
\* is a multiple of align.
\* (), [u8; 2], and a type aligned beyond what malloc guarantees.
Types == {[size |-> 0, align |-> 1],
          [size |-> 2, align |-> 1],
          [size |-> 4, align |-> 4]}

size_of(T) == T.size
align_of(T) == T.align

\* NonNull::<T>::dangling(): the address align_of::<T>().
dangling(T) == align_of(T)

Counts == (0..MaxCount) \cup {HugeCount}
Uninit == -1

\* usize::checked_mul: the product, or None (-1) on overflow.
None == -1
checked_mul(a, b) == IF a * b < USIZE_MOD THEN a * b ELSE None
wrapping_mul(a, b) == (a * b) % USIZE_MOD

\* ------------------------------------------------------ platform heap ----
\* heap: function from the address of each live block to the block.
Addrs == HeapBase..(HeapTop - 1)

Fits(h, a, size) ==
    /\ a >= HeapBase
    /\ a + size <= HeapTop
    /\ \A b \in DOMAIN h : a + size <= b \/ b + h[b].size <= a

FreshBlock(size) == [size |-> size, data |-> [k \in 1..size |-> Uninit]]

HeapAdd(h, a, blk) == [b \in (DOMAIN h) \cup {a} |-> IF b = a THEN blk ELSE h[b]]
HeapDel(h, a) == [b \in (DOMAIN h) \ {a} |-> h[b]]

\* libc::malloc(size): NULL, or a free range aligned to MallocAlign.
libc_malloc(h, size) ==
    {NULL} \cup {a \in Addrs : a % MallocAlign = 0 /\ Fits(h, a, size)}

\* libc::memalign(align, size): NULL, or a free range aligned to align (and,
\* as every block of the heap, to MallocAlign).
libc_memalign(h, align, size) ==
    {NULL} \cup {a \in Addrs : a % align = 0 /\ a % MallocAlign = 0 /\ Fits(h, a, size)}

\* libc::posix_memalign(&mut result, align, size): on success stores a free
\* range aligned to align; on failure leaves result as it was (null).
libc_posix_memalign(h, align, size) ==
    {NULL} \cup {a \in Addrs : a % align = 0 /\ a % MallocAlign = 0 /\ Fits(h, a, size)}

\* libc::realloc(ptr, size): NULL (the old block stays), the same address
\* when the block can be resized in place, or a new free range aligned to
\* MallocAlign, the old block being copied and then released.
libc_realloc(h, ptr, size) ==
    {NULL}
      \cup {a \in {ptr} : Fits(HeapDel(h, ptr), ptr, size)}
      \cup {a \in Addrs : a % MallocAlign = 0 /\ Fits(h, a, size)}

\* The block realloc leaves at its result: the first min(old, new) bytes of
\* the old block, the rest uninitialized.
Resized(blk, size) ==
    [size |-> size,
     data |-> [k \in 1..size |-> IF k <= blk.size THEN blk.data[k] ELSE Uninit]]

Max(a, b) == IF a >= b THEN a ELSE b
Min(a, b) == IF a <= b THEN a ELSE b

\* ------------------------------------------------ typed allocation ----
\* A platform call as a test double records it: the primitive, its pointer
\* argument (NULL if none), alignment (0 if none) and size arguments, what
\* it returned, and whether the pointer argument was a live block.
PlatformCall(f, ptr, align, size, ret, h) ==
    [f |-> f, ptr |-> ptr, align |-> align, size |-> size, ret |-> ret,
     live |-> ptr \in DOMAIN h]

\* The compile-time check of the windows malloc_aligned: align_of T is 1.
Instantiable(plat, T) == plat = "windows" => align_of(T) = 1

\* malloc_aligned::<T>(size): the platform calls it can make, each with the
\* result the platform gave.
malloc_aligned(plat, T, h, size) ==
    CASE plat = "windows" ->
           {PlatformCall("malloc", NULL, 0, size, res, h) : res \in libc_malloc(h, size)}
      [] plat = "android" ->
           {PlatformCall("memalign", NULL, align_of(T), size, res, h)
              : res \in libc_memalign(h, align_of(T), size)}
      [] OTHER ->
           LET align == Max(align_of(T), PtrSize) IN
           {PlatformCall("posix_memalign", NULL, align, size, res, h)
              : res \in libc_posix_memalign(h, align, size)}

\* What a typed function ends in: its result, "ok" or the way it failed,
\* the heap it leaves and the platform calls it made.
Outcome(result, outcome, h, calls) ==
    [result |-> result, outcome |-> outcome, heap |-> h, calls |-> calls]

\* gen_malloc without the size_of::<T>() == 0 test.
gen_malloc_ignores_zst(plat, T, count, h) ==
    IF count = 0
    THEN {Outcome(dangling(T), "ok", h, <<>>)}
    ELSE LET requested_size == checked_mul(count, size_of(T)) IN
         IF requested_size = None
         THEN {Outcome(NULL, "memory overflow", h, <<>>)}
         ELSE {IF c.ret = NULL
               THEN Outcome(NULL, "alloc_error", h, <<c>>)
               ELSE Outcome(c.ret, "ok", HeapAdd(h, c.ret, FreshBlock(requested_size)), <<c>>)
               : c \in malloc_aligned(plat, T, h, requested_size)}

\* gen_malloc with count * size_of::<T>() in place of checked_mul.
gen_malloc_wrapping(plat, T, count, h) ==
    IF size_of(T) = 0 \/ count = 0
    THEN {Outcome(dangling(T), "ok", h, <<>>)}
    ELSE LET requested_size == wrapping_mul(count, size_of(T)) IN
         {IF c.ret = NULL
          THEN Outcome(NULL, "alloc_error", h, <<c>>)
          ELSE Outcome(c.ret, "ok", HeapAdd(h, c.ret, FreshBlock(requested_size)), <<c>>)
          : c \in malloc_aligned(plat, T, h, requested_size)}

\* gen_malloc without the res.is_null() test.
gen_malloc_unchecked(plat, T, count, h) ==
    IF size_of(T) = 0 \/ count = 0
    THEN {Outcome(dangling(T), "ok", h, <<>>)}
    ELSE LET requested_size == checked_mul(count, size_of(T)) IN
         IF requested_size = None
         THEN {Outcome(NULL, "memory overflow", h, <<>>)}
         ELSE {IF c.ret = NULL
               THEN Outcome(NULL, "ok", h, <<c>>)
               ELSE Outcome(c.ret, "ok", HeapAdd(h, c.ret, FreshBlock(requested_size)), <<c>>)
               : c \in malloc_aligned(plat, T, h, requested_size)}

\* gen_malloc::<T>(count).  expect("memory overflow") panics;
\* handle_alloc_error does not return.
gen_malloc(plat, T, count, h) ==
    IF size_of(T) = 0 \/ count = 0
    THEN {Outcome(dangling(T), "ok", h, <<>>)}
    ELSE LET requested_size == checked_mul(count, size_of(T)) IN
         IF requested_size = None
         THEN {Outcome(NULL, "memory overflow", h, <<>>)}
         ELSE {IF c.ret = NULL
               THEN Outcome(NULL, "alloc_error", h, <<c>>)
               ELSE Outcome(c.ret, "ok", HeapAdd(h, c.ret, FreshBlock(requested_size)), <<c>>)
               : c \in malloc_aligned(plat, T, h, requested_size)}

\* gen_free without the ptr != NonNull::dangling() test.
gen_free_unconditional(T, ptr, h) ==
    Outcome(NULL, "ok", HeapDel(h, ptr), <<PlatformCall("free", ptr, 0, 0, NULL, h)>>)

\* gen_free that never reaches libc::free.
gen_free_noop(T, ptr, h) ==
    Outcome(NULL, "ok", h, <<>>)

\* gen_free::<T>(ptr)
gen_free(T, ptr, h) ==
    IF ptr # dangling(T)
    THEN Outcome(NULL, "ok", HeapDel(h, ptr), <<PlatformCall("free", ptr, 0, 0, NULL, h)>>)
    ELSE Outcome(NULL, "ok", h, <<>>)

\* gen_realloc whose new_count == 0 branch returns dangling without gen_free.
gen_realloc_leak(plat, T, ptr, new_count, h) ==
    IF size_of(T) = 0
    THEN {Outcome(ptr, "ok", h, <<>>)}
    ELSE IF new_count = 0
    THEN {Outcome(dangling(T), "ok", h, <<>>)}
    ELSE IF ptr = dangling(T)
    THEN gen_malloc(plat, T, new_count, h)
    ELSE LET requested_size == checked_mul(new_count, size_of(T)) IN
         IF requested_size = None
         THEN {Outcome(NULL, "alloc_error", h, <<>>)}
         ELSE {LET c == PlatformCall("realloc", ptr, 0, requested_size, res, h) IN
               IF res = NULL
               THEN Outcome(NULL, "alloc_error", h, <<c>>)
               ELSE Outcome(res, "ok",
                            HeapAdd(HeapDel(h, ptr), res, Resized(h[ptr], requested_size)),
                            <<c>>)
               : res \in libc_realloc(h, ptr, requested_size)}

\* gen_realloc that releases the old block before it reports a failure.
gen_realloc_frees_on_failure(plat, T, ptr, new_count, h) ==
    IF size_of(T) = 0
    THEN {Outcome(ptr, "ok", h, <<>>)}
    ELSE IF new_count = 0
    THEN LET f == gen_free(T, ptr, h) IN
         {Outcome(dangling(T), "ok", f.heap, f.calls)}
    ELSE IF ptr = dangling(T)
    THEN gen_malloc(plat, T, new_count, h)
    ELSE LET requested_size == checked_mul(new_count, size_of(T))
             f == gen_free(T, ptr, h) IN
         IF requested_size = None
         THEN {Outcome(NULL, "alloc_error", f.heap, f.calls)}
         ELSE {LET c == PlatformCall("realloc", ptr, 0, requested_size, res, h) IN
               IF res = NULL
               THEN Outcome(NULL, "alloc_error", f.heap, <<c>> \o f.calls)
               ELSE Outcome(res, "ok",
                            HeapAdd(HeapDel(h, ptr), res, Resized(h[ptr], requested_size)),
                            <<c>>)
               : res \in libc_realloc(h, ptr, requested_size)}

\* gen_realloc as a fresh allocation and a release, without the copy.
gen_realloc_no_copy(plat, T, ptr, new_count, h) ==
    IF size_of(T) = 0
    THEN {Outcome(ptr, "ok", h, <<>>)}
    ELSE IF new_count = 0
    THEN LET f == gen_free(T, ptr, h) IN
         {Outcome(dangling(T), "ok", f.heap, f.calls)}
    ELSE IF ptr = dangling(T)
    THEN gen_malloc(plat, T, new_count, h)
    ELSE LET requested_size == checked_mul(new_count, size_of(T)) IN
         IF requested_size = None
         THEN {Outcome(NULL, "alloc_error", h, <<>>)}
         ELSE {LET c == PlatformCall("realloc", ptr, 0, requested_size, res, h) IN
               IF res = NULL
               THEN Outcome(NULL, "alloc_error", h, <<c>>)
               ELSE Outcome(res, "ok",
                            HeapAdd(HeapDel(h, ptr), res, FreshBlock(requested_size)),
                            <<c>>)
               : res \in libc_realloc(h, ptr, requested_size)}

\* gen_realloc::<T>(ptr, new_count)
gen_realloc(plat, T, ptr, new_count, h) ==
    IF size_of(T) = 0
    THEN {Outcome(ptr, "ok", h, <<>>)}
    ELSE IF new_count = 0
    THEN LET f == gen_free(T, ptr, h) IN
         {Outcome(dangling(T), "ok", f.heap, f.calls)}
    ELSE IF ptr = dangling(T)
    THEN gen_malloc(plat, T, new_count, h)
    ELSE LET requested_size == checked_mul(new_count, size_of(T)) IN
         IF requested_size = None
         THEN {Outcome(NULL, "alloc_error", h, <<>>)}
         ELSE {LET c == PlatformCall("realloc", ptr, 0, requested_size, res, h) IN
               IF res = NULL
               THEN Outcome(NULL, "alloc_error", h, <<c>>)
               ELSE Outcome(res, "ok",
                            HeapAdd(HeapDel(h, ptr), res, Resized(h[ptr], requested_size)),
                            <<c>>)
               : res \in libc_realloc(h, ptr, requested_size)}

\* ------------------------------------------------------------- state ----
VARIABLES
    platform,   \* the target the crate is built for
    heap,       \* the platform heap: live blocks by address
    handles,    \* the bag of handles the caller holds: NonNull<T> as [T, ptr]
    last,       \* the last typed call: arguments, outcome, platform calls
    pc          \* "running", or how the process ended

vars == <<platform, heap, handles, last, pc>>

Handle(T, ptr) == [T |-> T, ptr |-> ptr]

\* The number of elements a handle's storage holds.
CountOf(h, hd) ==
    IF hd.ptr \in DOMAIN h /\ size_of(hd.T) > 0 THEN h[hd.ptr].size \div size_of(hd.T) ELSE 0
Call(op, T, ptr, count, r) ==
    [op |-> op, T |-> T, ptr |-> ptr, count |-> count,
     result |-> r.result, outcome |-> r.outcome, calls |-> r.calls]
NoCall == [op |-> "none", T |-> [size |-> 0, align |-> 1], ptr |-> NULL, count |-> 0,
           result |-> NULL, outcome |-> "ok", calls |-> <<>>]

Init ==
    /\ platform \in Platforms
    /\ heap = <<>>
    /\ handles = EmptyBag
    /\ last = NoCall
    /\ pc = "running"

\* A failed call ends the process: expect() panics, handle_alloc_error aborts.
Ended(outcome) == IF outcome = "ok" THEN "running" ELSE outcome

\* let h = gen_malloc::<T>(count);
Malloc(T, count) ==
    /\ pc = "running"
    /\ BagCardinality(handles) < MaxHandles
    /\ Instantiable(platform, T)
    /\ \E r \in gen_malloc(platform, T, count, heap) :
         /\ heap' = r.heap
         /\ handles' = IF r.outcome = "ok"
                       THEN handles (+) SetToBag({Handle(T, r.result)})
                       ELSE handles
         /\ last' = Call("gen_malloc", T, NULL, count, r)
         /\ pc' = Ended(r.outcome)
    /\ UNCHANGED platform

\* gen_free(h);
Free(hd) ==
    /\ pc = "running"
    /\ BagIn(hd, handles)
    /\ LET r == gen_free(hd.T, hd.ptr, heap) IN
         /\ heap' = r.heap
         /\ handles' = handles (-) SetToBag({hd})
         /\ last' = Call("gen_free", hd.T, hd.ptr, 0, r)
         /\ pc' = Ended(r.outcome)
    /\ UNCHANGED platform

\* h = gen_realloc(h, new_count);
Realloc(hd, new_count) ==
    /\ pc = "running"
    /\ BagIn(hd, handles)
    /\ \E r \in gen_realloc(platform, hd.T, hd.ptr, new_count, heap) :
         /\ heap' = r.heap
         /\ handles' = IF r.outcome = "ok"
                       THEN (handles (-) SetToBag({hd}))
                              (+) SetToBag({Handle(hd.T, r.result)})
                       ELSE handles
         /\ last' = Call("gen_realloc", hd.T, hd.ptr, new_count, r)
         /\ pc' = Ended(r.outcome)
    /\ UNCHANGED platform

\* Little-endian bytes of value v in an element of n bytes.
RECURSIVE le_byte(_, _)
le_byte(v, k) == IF k = 1 THEN v % 256 ELSE le_byte(v \div 256, k - 1)
to_le_bytes(v, n) == [k \in 1..n |-> le_byte(v, k)]

\* The value the caller stores in element i.
ValueAt(i) == i + 1

\* The caller initializes the block: for i in 0..count,
\* std::ptr::write(h.as_ptr().add(i), ValueAt(i))
Write(hd) ==
    /\ pc = "running"
    /\ BagIn(hd, handles)
    /\ CountOf(heap, hd) > 0
    /\ LET sz == size_of(hd.T) IN
         heap' = [heap EXCEPT ![hd.ptr].data =
                    [k \in 1..heap[hd.ptr].size |->
                       to_le_bytes(ValueAt((k - 1) \div sz), sz)[((k - 1) % sz) + 1]]]
    /\ UNCHANGED <<platform, handles, last, pc>>

Next ==
    \/ \E T \in Types, count \in Counts : Malloc(T, count)
    \/ \E hd \in BagToSet(handles) : Free(hd)
    \/ \E hd \in BagToSet(handles), new_count \in Counts : Realloc(hd, new_count)
    \/ \E hd \in BagToSet(handles) : Write(hd)

Spec == Init /\ [][Next]_vars

TypeOK ==
    /\ platform \in Platforms
    /\ pc \in {"running", "memory overflow", "alloc_error"}
    /\ DOMAIN heap \subseteq Addrs
    /\ \A a \in DOMAIN heap : Len(heap[a].data) = heap[a].size

\* ------------------------------------------------------- observations ----
IsSentinel(T, ptr) == ptr = dangling(T)
Overflows(T, count) == count * size_of(T) >= USIZE_MOD
AllocPrims == {"malloc", "memalign", "posix_memalign", "realloc"}
CallsOf(c) == {c.calls[k] : k \in DOMAIN c.calls}

\* std::ptr::read(h.as_ptr().add(i)): the element, or Uninit if any of its
\* bytes was never written.
RECURSIVE from_le_bytes(_)
from_le_bytes(bs) ==
    IF bs = <<>> THEN 0 ELSE Head(bs) + 256 * from_le_bytes(Tail(bs))
Read(h, ptr, T, i) ==
    LET sz == size_of(T)
        bs == [k \in 1..sz |-> h[ptr].data[i * sz + k]] IN
    IF \E k \in 1..sz : bs[k] = Uninit THEN Uninit ELSE from_le_bytes(bs)

\* The step is the call gen_realloc(hd, last'.count).
ReallocStep(hd) ==
    /\ last'.op = "gen_realloc"
    /\ last'.T = hd.T
    /\ last'.ptr = hd.ptr
    /\ Realloc(hd, last'.count)

\* The non-sentinel handles the caller holds.
Owned == {hd \in BagToSet(handles) : ~IsSentinel(hd.T, hd.ptr)}

\* ------------------------------------------------------------- claims ----

\* C1: gen_malloc of a zero-sized T, or of count 0, returns the sentinel
\* NonNull::dangling() for T and makes no platform call.
C1_ZeroIsSentinelNoCall ==
    (last.op = "gen_malloc" /\ (size_of(last.T) = 0 \/ last.count = 0))
      => /\ last.outcome = "ok"
         /\ last.result = dangling(last.T)
         /\ last.calls = <<>>

C1_Witness ==
    /\ last.op = "gen_malloc"
    /\ size_of(last.T) = 0
    /\ last.count = HugeCount
    /\ last.result = dangling(last.T)

\* C2: gen_malloc of a non-zero-sized T with count > 0 whose byte size
\* overflows usize fails with "memory overflow" and the platform allocator
\* is never called.
C2_MallocOverflowBeforeCall ==
    (last.op = "gen_malloc" /\ size_of(last.T) > 0 /\ last.count > 0
       /\ Overflows(last.T, last.count))
      => /\ last.outcome = "memory overflow"
         /\ pc = "memory overflow"
         /\ last.calls = <<>>

C2_Witness ==
    /\ last.op = "gen_malloc"
    /\ Overflows(last.T, last.count)
    /\ last.outcome = "memory overflow"
    /\ heap # <<>>

\* C3 (as claimed): gen_realloc of a non-sentinel handle of a non-zero-sized
\* T with new_count > 0 whose byte size overflows reports the overflow
\* error, not the allocation failure, and does not call realloc.
C3_ReallocOverflowIsOverflowError ==
    (last.op = "gen_realloc" /\ size_of(last.T) > 0 /\ last.count > 0
       /\ ~IsSentinel(last.T, last.ptr) /\ Overflows(last.T, last.count))
      => /\ last.outcome = "memory overflow"
         /\ last.calls = <<>>

\* C4: when the platform allocator returns null to gen_malloc or to
\* gen_realloc the call ends in the allocation error; a call that returns
\* gives a non-null handle that is the sentinel or a block the platform
\* returned.
C4_NullIsAllocationFailure ==
    last.op \in {"gen_malloc", "gen_realloc"}
      => /\ (\E c \in CallsOf(last) : c.f \in AllocPrims /\ c.ret = NULL)
              => (last.outcome = "alloc_error" /\ pc = "alloc_error")
         /\ last.outcome = "ok"
              => /\ last.result # NULL
                 /\ \/ IsSentinel(last.T, last.result)
                    \/ /\ last.result \in DOMAIN heap
                       /\ \E c \in CallsOf(last) : c.f \in AllocPrims /\ c.ret = last.result

C4_Witness ==
    /\ last.op = "gen_malloc"
    /\ last.outcome = "alloc_error"
    /\ \E c \in CallsOf(last) : c.ret = NULL
    /\ heap # <<>>

\* C5 (as claimed): every non-sentinel handle gen_malloc or gen_realloc
\* returns is non-null and a multiple of align_of T.
C5_HandlesAligned ==
    (last.op \in {"gen_malloc", "gen_realloc"} /\ last.outcome = "ok"
       /\ ~IsSentinel(last.T, last.result))
      => /\ last.result # NULL
         /\ last.result % align_of(last.T) = 0

\* C6: the sentinel is never passed to free; gen_free of the sentinel makes
\* no platform call and gen_free of another handle calls free once, with
\* that address.
C6_SentinelNeverFreed ==
    /\ \A c \in CallsOf(last) : c.f = "free" => ~IsSentinel(last.T, c.ptr)
    /\ last.op = "gen_free"
         => IF IsSentinel(last.T, last.ptr)
            THEN last.calls = <<>>
            ELSE /\ Len(last.calls) = 1
                 /\ last.calls[1].f = "free"
                 /\ last.calls[1].ptr = last.ptr

C6_Witness ==
    /\ last.op = "gen_free"
    /\ size_of(last.T) > 0
    /\ IsSentinel(last.T, last.ptr)
    /\ last.calls = <<>>
    /\ heap # <<>>

\* C7: for a non-zero-sized T, gen_realloc(handle, 0) returns the sentinel
\* and leaves the heap as gen_free(handle) would: a non-sentinel block is
\* freed once, and for the sentinel no platform call is made.
C7_ReallocZeroIsFree ==
    [][\A hd \in BagToSet(handles) :
         (size_of(hd.T) > 0 /\ last'.count = 0 /\ ReallocStep(hd))
           => /\ last'.outcome = "ok"
              /\ last'.result = dangling(hd.T)
              /\ IF IsSentinel(hd.T, hd.ptr)
                 THEN heap' = heap /\ last'.calls = <<>>
                 ELSE /\ DOMAIN heap' = (DOMAIN heap) \ {hd.ptr}
                      /\ \A a \in DOMAIN heap' : heap'[a] = heap[a]
                      /\ Len(last'.calls) = 1
                      /\ last'.calls[1].f = "free"
                      /\ last'.calls[1].ptr = hd.ptr]_vars

C7_Witness ==
    /\ last.op = "gen_realloc"
    /\ size_of(last.T) > 0
    /\ last.count = 0
    /\ ~IsSentinel(last.T, last.ptr)
    /\ last.result = dangling(last.T)
    /\ last.ptr \notin DOMAIN heap
    /\ Len(last.calls) = 1

\* C8: when gen_realloc fails, by overflow or because realloc returned null,
\* the heap is as before the call: the old block is live, with its size and
\* contents, and the caller still holds its handle.
C8_FailedReallocKeepsHeap ==
    [][\A hd \in BagToSet(handles) :
         (last'.outcome # "ok" /\ ReallocStep(hd))
           => (heap' = heap /\ handles' = handles)]_vars

C8_Witness ==
    /\ last.op = "gen_realloc"
    /\ last.outcome = "alloc_error"
    /\ \E c \in CallsOf(last) : c.f = "realloc" /\ c.ret = NULL
    /\ last.ptr \in DOMAIN heap
    /\ Read(heap, last.ptr, last.T, 0) = ValueAt(0)

\* C9: a successful gen_realloc(h, m) of a block of n written elements,
\* n, m > 0, returns a handle whose first min(n, m) elements are the
\* original ones, resized in place or relocated.
C9_ReallocPreservesPrefix ==
    [][\A hd \in BagToSet(handles) :
         (/\ last'.outcome = "ok"
          /\ size_of(hd.T) > 0 /\ CountOf(heap, hd) > 0 /\ last'.count > 0
          /\ ReallocStep(hd)
          /\ \A i \in 0..(CountOf(heap, hd) - 1) : Read(heap, hd.ptr, hd.T, i) # Uninit)
           => /\ last'.result \in DOMAIN heap'
              /\ \A i \in 0..(Min(CountOf(heap, hd), last'.count) - 1) :
                   Read(heap', last'.result, hd.T, i) = Read(heap, hd.ptr, hd.T, i)]_vars

\* A relocated block that grew from one written element to two.
C9_Witness ==
    /\ last.op = "gen_realloc"
    /\ last.outcome = "ok"
    /\ last.count = 2
    /\ last.result # last.ptr
    /\ last.result \in DOMAIN heap
    /\ Read(heap, last.result, last.T, 0) = ValueAt(0)
    /\ Read(heap, last.result, last.T, 1) = Uninit

\* C10: while the calls succeed, the live platform blocks are exactly the
\* non-sentinel handles the caller holds, each held once, and free and
\* realloc are only given live blocks.
C10_HeapAccounting ==
    pc = "running"
      => /\ DOMAIN heap = {hd.ptr : hd \in Owned}
         /\ \A hd \in Owned : CopiesIn(hd, handles) = 1
         /\ \A h1, h2 \in Owned : h1.ptr = h2.ptr => h1 = h2
         /\ \A c \in CallsOf(last) : c.f \in {"free", "realloc"} => c.live

\* A block allocated by gen_realloc from the sentinel, next to another.
C10_Witness ==
    /\ pc = "running"
    /\ last.op = "gen_realloc"
    /\ IsSentinel(last.T, last.ptr)
    /\ last.result \in DOMAIN heap
    /\ Cardinality(DOMAIN heap) = 2
====
